---- MODULE Spec2Model ----
(***************************************************************************)
(* Model of src/qr.js: the GET / route that provisions one WhatsApp        *)
(* pairing session per HTTP request, the connection.update handler, the    *)
(* 60 s / 3 s / 5 s / 15 s timers and sendWelcomeMessages.                  *)
(***************************************************************************)
EXTENDS Naturals, Sequences, FiniteSets, TLC

\* ------------------------------------------------------------------ bounds
\* Requests that arrive in the two-request specification.
NumRequests == 2
\* connection.update events the connections emit in a one-request run.
MaxEvents == 2
\* connection.update events the connections emit in a two-request run.
MaxEventsTwo == 1
\* Values Date.now() can return and values Math.random() can return.
NumClock == 2
NumRandom == 2

Sessions == 1..NumRequests
Clock == 1..NumClock
Random == 1..NumRandom

\* ------------------------------------------------------------------ state
VARIABLES
    sess,        \* per request: the closure variables of router.get('/')
    dirs,        \* the directories that exist on disk
    credsFiles,  \* the directories that hold a creds.json
    arrivals,    \* HTTP requests that have not arrived yet
    evLeft       \* connection.update events still to be emitted

vars == <<sess, dirs, credsFiles, arrivals, evLeft>>

SessionsRoot == "./qr_sessions"

\* line 28: the template literal holds no ${...} substitution (its "\(" and
\* "\)" are escapes of the plain characters), so neither Date.now() nor
\* Math.random() is evaluated and the result is the literal text.
SessionId(now, rnd) ==
    "session_( {Date.now()}_ ){Math.random().toString(36).substr(2, 9)}"

\* line 29
SessionDir(sessionId) == SessionsRoot \o "/" \o sessionId

\* rmSync given the sessions root instead of the session directory
RemoveSessionDirsRoot(path, ds) == IF path \in ds THEN ds \ {SessionsRoot} ELSE ds

\* the existsSync test inverted
RemoveSessionDirsInverted(path, ds) == IF path \notin ds THEN ds \ {path} ELSE ds

\* lines 19-24: removeSession, as the new set of directories / creds files
RemoveSessionDirs(path, ds) == IF path \in ds THEN ds \ {path} ELSE ds
RemoveSessionCreds(path, ds, cs) == IF path \in ds THEN cs \ {path} ELSE cs

\* lines 32-35: the root is created when missing, then mkdirSync(sessionDir,
\* {recursive: true}), which accepts a directory that already exists
MkSessionDirs(path, ds) == (ds \cup {SessionsRoot}) \cup {path}

\* the audio sent before the image
NextPayloadAudioFirst(p) ==
    CASE p = "doc"   -> "audio"
      [] p = "audio" -> "image"
      [] p = "image" -> "text"
      [] p = "text"  -> "done"

\* The order of the awaited sends of sendWelcomeMessages, lines 164-202
NextPayload(p) ==
    CASE p = "doc"   -> "image"
      [] p = "image" -> "audio"
      [] p = "audio" -> "text"
      [] p = "text"  -> "done"

\* the closure of a request that has not arrived (lines 37-39 give the flags)
NoSession ==
    [ phase             |-> "idle",
      sessionId         |-> "",
      sessionDir        |-> "",
      qrSent            |-> FALSE,
      connectionSuccess |-> FALSE,
      headersSent       |-> FALSE,
      status            |-> 0,
      sentBy            |-> "none",
      lateWrites        |-> {},
      render            |-> "none",
      rest              |-> [connection |-> "none", reason |-> "none"],
      renders           |-> 0,
      qrSuppressed      |-> FALSE,
      loadedCreds       |-> FALSE,
      timer60           |-> "unset",
      reconnectTimers   |-> 0,
      reconnects        |-> 0,
      retryTimers       |-> 0,
      unknownOpens      |-> 0,
      retriesFired      |-> 0,
      cleanupTimers     |-> 0,
      ended             |-> FALSE,
      loggedOut         |-> FALSE,
      handles           |-> 0,
      closes            |-> 0,
      transientCloses   |-> 0,
      removeCalls       |-> 0,
      runs              |-> << >> ]

InitWith(n, e) ==
    /\ sess = [s \in Sessions |-> NoSession]
    /\ dirs = {}
    /\ credsFiles = {}
    /\ arrivals = n
    /\ evLeft = e

Init == InitWith(1, MaxEvents)
InitTwo == InitWith(NumRequests, MaxEventsTwo)

\* ------------------------------------------------------------------ route
\* lines 27-41: a request arrives; the id and the directory are made and the
\* handler suspends at the await of useMultiFileAuthState
Request(s, now, rnd) ==
    /\ arrivals > 0
    /\ sess[s].phase = "idle"
    /\ \A t \in Sessions : t < s => sess[t].phase # "idle"
    /\ LET id == SessionId(now, rnd)
           dir == SessionDir(id)
       IN /\ sess' = [sess EXCEPT ![s].phase = "loading",
                                  ![s].sessionId = id,
                                  ![s].sessionDir = dir]
          /\ dirs' = MkSessionDirs(dir, dirs)
    /\ arrivals' = arrivals - 1
    /\ UNCHANGED <<credsFiles, evLeft>>

\* res.status(code).json(...): express throws "Cannot set headers after they
\* are sent" when the response was already sent; the attempt is recorded
Respond(r, code, who) ==
    IF r.headersSent
    THEN [r EXCEPT !.lateWrites = @ \cup {who}]
    ELSE [r EXCEPT !.headersSent = TRUE, !.status = code, !.sentBy = who]

\* lines 146-152: the catch block of the route
CatchInit(r) ==
    LET r1 == [r EXCEPT !.phase = "failed", !.removeCalls = @ + 1]
    IN IF ~r1.headersSent THEN Respond(r1, 500, "init") ELSE r1

\* line 42: useMultiFileAuthState resolves (reading what the directory holds)
\* or throws
LoadCreds(s, ok) ==
    /\ sess[s].phase = "loading"
    /\ IF ok
       THEN /\ sess' = [sess EXCEPT
                           ![s].phase = "fetching",
                           ![s].loadedCreds = (sess[s].sessionDir \in credsFiles)]
            /\ UNCHANGED <<dirs, credsFiles>>
       ELSE /\ sess' = [sess EXCEPT ![s] = CatchInit(sess[s])]
            /\ dirs' = RemoveSessionDirs(sess[s].sessionDir, dirs)
            /\ credsFiles' = RemoveSessionCreds(sess[s].sessionDir, dirs, credsFiles)
    /\ UNCHANGED <<arrivals, evLeft>>

InitOutcomes == {"ok", "fetchThrows", "openThrows"}

\* lines 43-144: fetchLatestBaileysVersion resolves or throws, makeWASocket
\* returns or throws; on success the handlers are attached and the 60 s timer
\* is armed in the same turn
OpenSocket(s, outcome) ==
    /\ sess[s].phase = "fetching"
    /\ IF outcome = "ok"
       THEN /\ sess' = [sess EXCEPT ![s].phase = "running",
                                    ![s].handles = @ + 1,
                                    ![s].timer60 = "armed"]
            /\ UNCHANGED <<dirs, credsFiles>>
       ELSE /\ sess' = [sess EXCEPT ![s] = CatchInit(sess[s])]
            /\ dirs' = RemoveSessionDirs(sess[s].sessionDir, dirs)
            /\ credsFiles' = RemoveSessionCreds(sess[s].sessionDir, dirs, credsFiles)
    /\ UNCHANGED <<arrivals, evLeft>>

\* ------------------------------------------------- sendWelcomeMessages
\* lines 156-173, up to the first await: the identity is the fallbackJid
\* argument or else sock.user.id; without one the function returns; the
\* credentials document is the first send only if creds.json exists now
SendWelcomeStart(r, hasArg, sockUser, credsExist) ==
    IF ~(hasArg \/ sockUser)
    THEN r
    ELSE LET first == IF credsExist THEN "doc" ELSE "image"
         IN [r EXCEPT !.runs = Append(@,
                [ pc           |-> first,
                  log          |-> <<first>>,
                  credsAtStart |-> credsExist,
                  jidFrom      |-> IF hasArg THEN "fallbackJid" ELSE "sock.user",
                  cleanup      |-> FALSE ])]

\* ------------------------------------------------- connection.update
\* onboarding started at once although sock.user is not there yet
OpenBranchEager(r, sockUser, credsExist) ==
    LET r1 == [r EXCEPT !.connectionSuccess = TRUE]
    IN IF ~sockUser
       THEN SendWelcomeStart([r1 EXCEPT !.retryTimers = @ + 1,
                                        !.unknownOpens = @ + 1],
                             TRUE, sockUser, credsExist)
       ELSE SendWelcomeStart(r1, TRUE, sockUser, credsExist)

\* lines 99-110: the open branch
OpenBranch(r, sockUser, credsExist) ==
    LET r1 == [r EXCEPT !.connectionSuccess = TRUE]
    IN IF ~sockUser
       THEN [r1 EXCEPT !.retryTimers = @ + 1, !.unknownOpens = @ + 1]
       ELSE SendWelcomeStart(r1, TRUE, sockUser, credsExist)

\* the comparison with DisconnectReason.loggedOut turned around
ShouldReconnectOnLogout(reason) == reason = "loggedOut"

\* line 114
ShouldReconnect(reason) == reason # "loggedOut"

\* the test of res.headersSent left out
CloseRespondsUnpaired(r) == ~r.connectionSuccess

\* line 123
CloseResponds(r) == ~r.connectionSuccess /\ ~r.headersSent

\* lines 112-130: the close branch (the directory is handled by the action)
CloseBranch(r, reason) ==
    LET r0 == [r EXCEPT !.closes = @ + 1,
                        !.transientCloses =
                            IF reason # "loggedOut" THEN @ + 1 ELSE @]
        r1 == IF reason = "loggedOut"
              THEN [r0 EXCEPT !.loggedOut = TRUE, !.removeCalls = @ + 1]
              ELSE r0
        r2 == IF CloseResponds(r1) THEN Respond(r1, 500, "close") ELSE r1
    IN IF ShouldReconnect(reason)
       THEN [r2 EXCEPT !.reconnectTimers = @ + 1]
       ELSE r2

\* lines 99-130: what the handler does after its qr branch
HandlerTail(r, u, sockUser, credsExist) ==
    CASE u.connection = "open"  -> OpenBranch(r, sockUser, credsExist)
      [] u.connection = "close" -> CloseBranch(r, u.reason)
      [] OTHER -> r

TailRemoves(u) == u.connection = "close" /\ u.reason = "loggedOut"

\* the updates the connection emits: a pairing code, a connection change,
\* or both in one (buffered) update
Updates ==
    { u \in [qr : BOOLEAN, connection : {"none", "open", "close"},
             reason : {"none", "loggedOut", "other"}] :
        /\ (u.connection = "close") <=> (u.reason # "none")
        /\ u.qr \/ u.connection # "none" }

\* a failed render lets the next pairing code in again
StartsRenderAgainAfterFailure(r, u) ==
    u.qr /\ (~r.qrSent \/ r.render = "failed")

\* a guard on the response instead of on qrSent
StartsRenderOnHeaders(r, u) == u.qr /\ ~r.headersSent

\* line 68
StartsRender(r, u) == u.qr /\ ~r.qrSent

\* lines 65-131: one connection.update event, up to the await of the render
\* (line 71) when the qr branch is taken, to the end of the handler otherwise
ConnectionUpdate(s, u, sockUser) ==
    /\ sess[s].phase = "running"
    /\ evLeft > 0
    /\ evLeft' = evLeft - 1
    /\ IF StartsRender(sess[s], u)
       THEN /\ sess' = [sess EXCEPT
                           ![s].qrSent = TRUE,
                           ![s].render = "pending",
                           ![s].renders = @ + 1,
                           ![s].rest = [connection |-> u.connection,
                                        reason |-> u.reason]]
            /\ UNCHANGED <<dirs, credsFiles>>
       ELSE LET dir == sess[s].sessionDir
                r0 == [sess[s] EXCEPT !.qrSuppressed = @ \/ u.qr]
            IN /\ sess' = [sess EXCEPT
                              ![s] = HandlerTail(r0, u, sockUser, dir \in credsFiles)]
               /\ dirs' = IF TailRemoves(u)
                          THEN RemoveSessionDirs(dir, dirs) ELSE dirs
               /\ credsFiles' = IF TailRemoves(u)
                                THEN RemoveSessionCreds(dir, dirs, credsFiles)
                                ELSE credsFiles
    /\ UNCHANGED <<arrivals>>

\* lines 71-97: the render resolves and res.json is called without a look at
\* headersSent (its throw lands in the catch), or the render throws
AfterRender(r, ok) ==
    IF ok
    THEN Respond(r, 200, "qr")
    ELSE IF ~r.headersSent THEN Respond(r, 500, "qrfail") ELSE r

\* lines 71-130: the handler resumes after the render
RenderDone(s, ok, sockUser) ==
    /\ sess[s].phase = "running"
    /\ sess[s].render = "pending"
    /\ LET dir == sess[s].sessionDir
           u == sess[s].rest
           r1 == [AfterRender(sess[s], ok) EXCEPT
                     !.render = IF ok THEN "done" ELSE "failed",
                     !.rest = [connection |-> "none", reason |-> "none"]]
       IN /\ sess' = [sess EXCEPT ![s] = HandlerTail(r1, u, sockUser, dir \in credsFiles)]
          /\ dirs' = IF TailRemoves(u) THEN RemoveSessionDirs(dir, dirs) ELSE dirs
          /\ credsFiles' = IF TailRemoves(u)
                           THEN RemoveSessionCreds(dir, dirs, credsFiles)
                           ELSE credsFiles
    /\ UNCHANGED <<arrivals, evLeft>>

\* ------------------------------------------------- timers and awaits
Payloads == {"doc", "image", "audio", "text"}

\* lines 164-214: an awaited sock.sendMessage settles. Resolved: the next
\* send starts, or after the closing text the function reaches line 207.
\* Rejected: the catch of line 212 logs and the function returns.
RunStep(run, ok) ==
    IF ~ok
    THEN [run EXCEPT !.pc = "aborted"]
    ELSE LET nxt == NextPayload(run.pc)
         IN IF nxt = "done"
            THEN [run EXCEPT !.pc = "done", !.cleanup = TRUE]
            ELSE [run EXCEPT !.pc = nxt, !.log = Append(@, nxt)]

\* lines 207-210 are reached only from the end of the try block
SchedulesCleanup(run, ok) == ok /\ NextPayload(run.pc) = "done"

SendDone(s, i, ok) ==
    /\ i \in 1..Len(sess[s].runs)
    /\ sess[s].runs[i].pc \in Payloads
    /\ sess' = [sess EXCEPT
                   ![s].runs[i] = RunStep(@, ok),
                   ![s].cleanupTimers =
                       IF SchedulesCleanup(sess[s].runs[i], ok) THEN @ + 1 ELSE @]
    /\ UNCHANGED <<dirs, credsFiles, arrivals, evLeft>>

\* lines 207-210: the 15 s timer fires
CleanupFire(s) ==
    /\ sess[s].cleanupTimers > 0
    /\ sess' = [sess EXCEPT ![s].cleanupTimers = @ - 1,
                             ![s].removeCalls = @ + 1,
                             ![s].ended = TRUE]
    /\ dirs' = RemoveSessionDirs(sess[s].sessionDir, dirs)
    /\ credsFiles' = RemoveSessionCreds(sess[s].sessionDir, dirs, credsFiles)
    /\ UNCHANGED <<arrivals, evLeft>>

\* line 128: a 3 s timer fires and calls sock.ws.connect()
ReconnectFire(s) ==
    /\ sess[s].reconnectTimers > 0
    /\ sess' = [sess EXCEPT ![s].reconnectTimers = @ - 1, ![s].reconnects = @ + 1]
    /\ UNCHANGED <<dirs, credsFiles, arrivals, evLeft>>

\* line 106: a 5 s timer fires and calls sendWelcomeMessages(sock, sessionDir)
RetryFire(s, sockUser) ==
    /\ sess[s].retryTimers > 0
    /\ LET r1 == [sess[s] EXCEPT !.retryTimers = @ - 1, !.retriesFired = @ + 1]
       IN sess' = [sess EXCEPT
                      ![s] = SendWelcomeStart(r1, FALSE, sockUser,
                                              sess[s].sessionDir \in credsFiles)]
    /\ UNCHANGED <<dirs, credsFiles, arrivals, evLeft>>

\* the test of qrSent left out
TimerWrites408Unpaired(r) == ~r.connectionSuccess

\* line 137
TimerWrites408(r) == ~r.connectionSuccess /\ ~r.qrSent
\* the teardown made to depend on the pairing code instead of on pairing
TimerTearsDownNoQr(r) == ~r.connectionSuccess \/ r.qrSent

\* line 140
TimerTearsDown(r) == ~r.connectionSuccess

\* lines 136-144: the 60 s timer fires. The write of line 138 does not look at
\* headersSent: on a response already sent it throws and the callback ends
\* there, before lines 140-143.
Timer60Fire(s) ==
    /\ sess[s].timer60 = "armed"
    /\ LET r == [sess[s] EXCEPT !.timer60 = "fired"]
           threw == TimerWrites408(r) /\ r.headersSent
           r1 == IF TimerWrites408(r) THEN Respond(r, 408, "timer") ELSE r
           down == TimerTearsDown(r) /\ ~threw
       IN /\ sess' = [sess EXCEPT ![s] = IF down THEN [r1 EXCEPT !.ended = TRUE,
                                                                 !.removeCalls = @ + 1]
                                                 ELSE r1]
          /\ dirs' = IF down THEN RemoveSessionDirs(r.sessionDir, dirs) ELSE dirs
          /\ credsFiles' = IF down
                           THEN RemoveSessionCreds(r.sessionDir, dirs, credsFiles)
                           ELSE credsFiles
    /\ UNCHANGED <<arrivals, evLeft>>

\* line 133: a creds.update event; saveCreds writes creds.json into the
\* session directory (the write fails when the directory is gone)
SaveCreds(s) ==
    /\ sess[s].phase = "running"
    /\ credsFiles' = IF sess[s].sessionDir \in dirs
                     THEN credsFiles \cup {sess[s].sessionDir}
                     ELSE credsFiles
    /\ UNCHANGED <<sess, dirs, arrivals, evLeft>>

Next ==
    \/ \E s \in Sessions, now \in Clock, rnd \in Random : Request(s, now, rnd)
    \/ \E s \in Sessions, ok \in BOOLEAN : LoadCreds(s, ok)
    \/ \E s \in Sessions, o \in InitOutcomes : OpenSocket(s, o)
    \/ \E s \in Sessions, u \in Updates, k \in BOOLEAN : ConnectionUpdate(s, u, k)
    \/ \E s \in Sessions, ok \in BOOLEAN, k \in BOOLEAN : RenderDone(s, ok, k)
    \/ \E s \in Sessions, ok \in BOOLEAN :
          \E i \in DOMAIN sess[s].runs : SendDone(s, i, ok)
    \/ \E s \in Sessions : CleanupFire(s)
    \/ \E s \in Sessions : ReconnectFire(s)
    \/ \E s \in Sessions, k \in BOOLEAN : RetryFire(s, k)
    \/ \E s \in Sessions : Timer60Fire(s)
    \/ \E s \in Sessions : SaveCreds(s)

Spec == Init /\ [][Next]_vars
SpecTwo == InitTwo /\ [][Next]_vars

\* ------------------------------------------------------------------ claims
Started == {s \in Sessions : sess[s].phase # "idle"}
Dir(s) == sess[s].sessionDir

\* C1: for every session whose initialization succeeded, the response is
\* fulfilled exactly once: once the 60 s timer has fired the response has
\* been sent, and no second send is ever attempted on it.
C1_FulfilledExactlyOnce ==
    \A s \in Sessions :
        sess[s].timer60 = "fired" =>
            sess[s].headersSent /\ sess[s].lateWrites = {}

\* C2: no handler writes to the response once it has been sent; every losing
\* writer is a no-op and never runs into "headers already sent".
C2_NoWriteAfterSent ==
    \A s \in Sessions : sess[s].lateWrites = {}

\* C3: at most one pairing code is rendered per session: only the first
\* pairing-code event starts a render (and so a success response), every
\* later one is suppressed, also while the first render is in progress.
C3_AtMostOneRender ==
    \A s \in Sessions :
        /\ sess[s].renders <= 1
        /\ sess[s].qrSuppressed => sess[s].renders = 1
        /\ sess[s].status = 200 => sess[s].renders = 1 /\ sess[s].sentBy = "qr"

\* a second pairing code arrived while the first render was still pending
C3_Witness ==
    \E s \in Sessions :
        sess[s].qrSuppressed /\ sess[s].render = "pending" /\ sess[s].renders = 1

\* C4: once a connection-closed event with the logged-out reason was handled,
\* the session directory is absent after that handler and no reconnect call
\* is made on the handle any more, pending 3 s timers included.
C4_LogoutNoReconnect ==
    [][\A s \in Sessions :
          /\ (~sess[s].loggedOut /\ sess'[s].loggedOut) => Dir(s) \notin dirs'
          /\ sess[s].loggedOut => sess'[s].reconnects = sess[s].reconnects]_vars

\* C5: whenever the 60 s timer fires while connectionSuccess is false, the
\* session directory is absent and end() has been called after the callback.
C5_TimeoutTearsDown ==
    [][\A s \in Sessions :
          (/\ sess[s].timer60 = "armed"
           /\ sess'[s].timer60 = "fired"
           /\ ~sess[s].connectionSuccess)
          => (Dir(s) \notin dirs' /\ sess'[s].ended)]_vars

Runs(s) == sess[s].runs

\* the order section 4.3 of the specification gives
ExpectedOrder(withDoc) ==
    IF withDoc THEN <<"doc", "image", "audio", "text">>
               ELSE <<"image", "audio", "text">>

IsPrefix(a, b) == Len(a) <= Len(b) /\ \A i \in 1..Len(a) : a[i] = b[i]

C6_Order ==
    \A s \in Sessions : \A i \in DOMAIN Runs(s) :
        LET run == Runs(s)[i]
        IN /\ IsPrefix(run.log, ExpectedOrder(run.credsAtStart))
           /\ run.pc \in Payloads => run.pc = run.log[Len(run.log)]
           /\ run.pc = "done" => run.log = ExpectedOrder(run.credsAtStart)

C6_Sequential ==
    \A s \in Sessions : \A i \in DOMAIN Runs(s) :
        LET run == Runs(s)[i]
            run2 == sess'[s].runs[i]
        IN /\ run.pc \in {"aborted", "done"} => run2 = run
           /\ run2.log # run.log =>
                 /\ run.pc \in Payloads
                 /\ run2.log = Append(run.log, run2.pc)

\* C6: within one run of sendWelcomeMessages the sends start in the order
\* credentials document (only if creds.json existed when the run started),
\* image, audio, text; a send starts only when the one before it has
\* resolved, and after a send that threw no further send of the run starts.
C6_PipelineOrder == []C6_Order /\ [][C6_Sequential]_vars

\* a run that sent the document and was aborted by a throw before the text
C6_Witness ==
    \E s \in Sessions : \E i \in DOMAIN Runs(s) :
        /\ Runs(s)[i].pc = "aborted"
        /\ Runs(s)[i].credsAtStart
        /\ Len(Runs(s)[i].log) = 2

\* C7: once a run of the pipeline has finished, with all payloads sent or
\* aborted by a throw, the 15 s cleanup timer has been scheduled for it.
C7_CleanupAlwaysScheduled ==
    \A s \in Sessions : \A i \in DOMAIN Runs(s) :
        Runs(s)[i].pc \in {"done", "aborted"} => Runs(s)[i].cleanup

C8_OneRetryEach ==
    \A s \in Sessions :
        sess[s].unknownOpens = sess[s].retryTimers + sess[s].retriesFired

C8_RetryStep ==
    \A s \in Sessions :
        /\ sess'[s].unknownOpens # sess[s].unknownOpens =>
              /\ sess'[s].unknownOpens = sess[s].unknownOpens + 1
              /\ sess'[s].runs = sess[s].runs
        /\ sess'[s].retriesFired # sess[s].retriesFired =>
              /\ sess'[s].retriesFired = sess[s].retriesFired + 1
              /\ sess'[s].unknownOpens = sess[s].unknownOpens
              /\ \/ sess'[s].runs = sess[s].runs
                 \/ /\ Len(sess'[s].runs) = Len(sess[s].runs) + 1
                    /\ sess'[s].runs[Len(sess'[s].runs)].jidFrom = "sock.user"

\* C8: a connection-established event with no resolvable identity starts no
\* onboarding in its own step; it schedules exactly one 5 s timer, whose
\* firing makes one attempt with the identity read from sock.user and, when
\* that is still missing, schedules nothing further.
C8_SingleDelayedRetry == []C8_OneRetryEach /\ [][C8_RetryStep]_vars

\* the retry fired, the identity was still missing, and nothing is pending
C8_Witness ==
    \E s \in Sessions :
        /\ sess[s].unknownOpens = 1
        /\ sess[s].retriesFired = 1
        /\ sess[s].retryTimers = 0
        /\ sess[s].runs = << >>

\* C9: two sessions started by two requests have different session ids and
\* different session directories.
C9_DistinctSessions ==
    \A s \in Started : \A t \in Started :
        s # t => /\ sess[s].sessionId # sess[t].sessionId
                 /\ sess[s].sessionDir # sess[t].sessionDir

C10_FailStep ==
    \A s \in Sessions :
        /\ (sess[s].phase # "failed" /\ sess'[s].phase = "failed") =>
              /\ Dir(s) \notin dirs'
              /\ sess'[s].headersSent
              /\ sess'[s].status = 500
              /\ sess'[s].sentBy = "init"
              /\ sess'[s].timer60 = "unset"
        /\ sess[s].phase = "failed" => sess'[s] = sess[s]

\* C10: when credential loading, version fetch or connection open throws, the
\* session directory is deleted and the response is fulfilled with a 500 in
\* that step; afterwards the session does nothing: its state never changes,
\* no handler runs and no 60 s timer is armed.
C10_InitFailure == [][C10_FailStep]_vars

\* an initialization that threw: 500 sent, directory gone
C10_Witness ==
    \E s \in Sessions :
        /\ sess[s].phase = "failed"
        /\ sess[s].status = 500
        /\ Dir(s) \notin dirs

TimerFires(s) == sess[s].timer60 = "armed" /\ sess'[s].timer60 = "fired"
Becomes408(s) == sess[s].status # 408 /\ sess'[s].status = 408

\* C11 as stated: when the 60 s timer has fired with no pairing code ever
\* emitted and pairing never achieved, the response carries the 408.
C11_TimeoutAlways408 ==
    [][\A s \in Sessions :
          (TimerFires(s) /\ ~sess[s].qrSent /\ ~sess[s].connectionSuccess)
          => sess'[s].status = 408]_vars

\* C11 (amended): the 60 s timer fulfills the response with the 408 exactly
\* when, as it fires, no pairing code was ever emitted, pairing never
\* succeeded and the response is still open; no other step produces a 408.
C11_Timeout408 ==
    [][\A s \in Sessions :
          /\ TimerFires(s) =>
                (Becomes408(s) <=> (/\ ~sess[s].qrSent
                                    /\ ~sess[s].connectionSuccess
                                    /\ ~sess[s].headersSent))
          /\ Becomes408(s) => TimerFires(s) /\ sess'[s].sentBy = "timer"]_vars

\* the timer answered a silent, unpaired session with the 408
C11_Witness ==
    \E s \in Sessions :
        /\ sess[s].timer60 = "fired"
        /\ sess[s].status = 408
        /\ sess[s].sentBy = "timer"

CallsRemoveSession(s) == sess'[s].removeCalls > sess[s].removeCalls

\* C12: removeSession is idempotent: whichever path calls it (logout close,
\* 60 s timer, initialization catch, 15 s cleanup) and however often, the
\* session directory is absent after the call and nothing else is touched;
\* on a directory already absent the call changes nothing.
C12_RemoveIdempotent ==
    [][\A s \in Sessions :
          CallsRemoveSession(s) =>
              /\ dirs' = dirs \ {Dir(s)}
              /\ credsFiles' = credsFiles \ {Dir(s)}
              /\ Dir(s) \notin dirs => (dirs' = dirs /\ credsFiles' = credsFiles)]_vars

\* removeSession was called a second time, on a directory already removed
C12_Witness ==
    \E s \in Sessions : sess[s].removeCalls >= 2 /\ Dir(s) \notin dirs

\* C13: the onboarding pipeline is started at most once per session, however
\* many connection-established events the connection emits.
C13_OnboardingOnce ==
    \A s \in Sessions : Len(Runs(s)) <= 1

C14_Counts ==
    \A s \in Sessions :
        /\ sess[s].transientCloses = sess[s].reconnectTimers + sess[s].reconnects
        /\ sess[s].handles <= 1

C14_Step ==
    \A s \in Sessions :
        /\ sess'[s].transientCloses # sess[s].transientCloses =>
              /\ sess'[s].reconnectTimers = sess[s].reconnectTimers + 1
              /\ sess'[s].reconnects = sess[s].reconnects
        /\ sess'[s].reconnects # sess[s].reconnects =>
              /\ sess'[s].reconnects = sess[s].reconnects + 1
              /\ sess'[s].reconnectTimers = sess[s].reconnectTimers - 1
              /\ sess'[s].handles = sess[s].handles

\* C14: every connection-closed event with a reason other than logged-out
\* schedules exactly one 3 s timer, each timer makes one sock.ws.connect()
\* call on the session's handle, and a session never has a second handle.
C14_OneReconnectPerClose == []C14_Counts /\ [][C14_Step]_vars

\* two transient closures, both reconnected through the one handle
C14_Witness ==
    \E s \in Sessions :
        /\ sess[s].transientCloses = 2
        /\ sess[s].reconnects = 2
        /\ sess[s].handles = 1

\* C15: the number of reconnect calls of a session has a bound that does not
\* grow with the closures the connection emits: of the MaxEvents closures a
\* run can emit, not every one is answered by a reconnect call.
C15_ReconnectsBounded ==
    \A s \in Sessions : sess[s].reconnects < MaxEvents

C16_Step ==
    \A s \in Sessions :
        LET resumed == sess[s].render = "pending" /\ sess'[s].render # "pending"
            closeHandled == sess'[s].closes > sess[s].closes
            closeAnswers == sess[s].sentBy # "close" /\ sess'[s].sentBy = "close"
            open == /\ ~sess[s].connectionSuccess
                    /\ ~sess[s].headersSent
                    /\ ~resumed
        IN /\ closeHandled => (closeAnswers <=> open)
           /\ closeAnswers => closeHandled /\ sess'[s].status = 500
           /\ (closeHandled /\ ~open) =>
                 (sess[s].headersSent => /\ sess'[s].status = sess[s].status
                                         /\ sess'[s].sentBy = sess[s].sentBy)
           /\ "close" \notin sess'[s].lateWrites

\* C16: a connection-closed event answers with the 500 exactly when, as its
\* close branch runs, pairing has never succeeded and the response is not
\* sent yet (a close carried by the update whose pairing code was just
\* rendered finds it sent); otherwise the close writes nothing.
C16_CloseFailure == [][C16_Step]_vars

\* a first close answered with the 500, a second one wrote nothing
C16_Witness ==
    \E s \in Sessions : sess[s].closes = 2 /\ sess[s].sentBy = "close"

\* C17: when the 60 s timer fires while connectionSuccess is true it does
\* nothing: the handle is not ended, nothing on disk is removed and the
\* response is not written.
C17_TimerSparesPaired ==
    [][\A s \in Sessions :
          (TimerFires(s) /\ sess[s].connectionSuccess) =>
              /\ sess'[s].ended = sess[s].ended
              /\ sess'[s].removeCalls = sess[s].removeCalls
              /\ dirs' = dirs
              /\ credsFiles' = credsFiles
              /\ sess'[s].headersSent = sess[s].headersSent
              /\ sess'[s].status = sess[s].status
              /\ sess'[s].lateWrites = sess[s].lateWrites]_vars

\* the timer fired on a session that had shown a code and was paired, and
\* left its handle and its directory alone
C17_Witness ==
    \E s \in Sessions :
        /\ sess[s].timer60 = "fired"
        /\ sess[s].connectionSuccess
        /\ sess[s].qrSent
        /\ ~sess[s].ended
        /\ Dir(s) \in dirs

\* C18: on every failure, timeout or logout path the session is torn down in
\* the step of the terminal outcome: the handle is ended and the directory
\* removed (initialization error, close answered with the 500, 60 s timeout
\* of an unpaired session, logged-out closure).
C18_ImmediateTeardown ==
    [][\A s \in Sessions :
          LET closeFails == sess[s].sentBy # "close" /\ sess'[s].sentBy = "close"
              logout == /\ sess'[s].closes > sess[s].closes
                        /\ sess'[s].transientCloses = sess[s].transientCloses
              timeout == TimerFires(s) /\ ~sess[s].connectionSuccess
              initFails == sess[s].phase # "failed" /\ sess'[s].phase = "failed"
          IN /\ (closeFails \/ logout \/ timeout) =>
                    (sess'[s].ended /\ Dir(s) \notin dirs')
             /\ initFails => Dir(s) \notin dirs']_vars

NoNewSend(s) ==
    /\ Len(sess'[s].runs) = Len(sess[s].runs)
    /\ \A i \in DOMAIN sess[s].runs : sess'[s].runs[i].log = sess[s].runs[i].log

\* C19: once end() has been called on the handle no further operation is
\* invoked on it: no sendMessage starts and no sock.ws.connect() is called.
C19_NoUseAfterEnd ==
    [][\A s \in Sessions :
          sess[s].ended =>
              /\ NoNewSend(s)
              /\ sess'[s].reconnects = sess[s].reconnects]_vars

C20_Step ==
    \A s \in Sessions :
        /\ (sess[s].render = "pending" /\ sess'[s].render = "failed") =>
              /\ sess'[s].headersSent
              /\ ~sess[s].headersSent =>
                    (sess'[s].status = 500 /\ sess'[s].sentBy = "qrfail")
              /\ sess[s].headersSent =>
                    /\ sess'[s].status = sess[s].status
                    /\ sess'[s].sentBy = sess[s].sentBy
                    /\ sess'[s].lateWrites = sess[s].lateWrites
        /\ sess[s].render = "failed" =>
              /\ sess'[s].render = "failed"
              /\ sess'[s].renders = sess[s].renders
              /\ sess'[s].qrSent

\* C20: when the render of the first pairing code throws, the response gets
\* the 500 if it is still open and is left alone if not; afterwards qrSent
\* stays true, no pairing code is rendered and no success response is sent.
C20_RenderFailure ==
    [](\A s \in Sessions : sess[s].render = "failed" => sess[s].status # 200)
    /\ [][C20_Step]_vars

\* the render failed, the 500 went out, and a later pairing code was ignored
C20_Witness ==
    \E s \in Sessions :
        /\ sess[s].render = "failed"
        /\ sess[s].sentBy = "qrfail"
        /\ sess[s].qrSuppressed
        /\ sess[s].renders = 1

====
